---- MODULE Spec2Model ----
(***************************************************************************)
(* Model of the trade-bridge order provider: the three broker adapters     *)
(* (DhanClient, UpstoxClient, ZerodhaClient) and the OrderProvider facade. *)
(*                                                                         *)
(* Conventions of the translation from JavaScript:                         *)
(*  - a missing / undefined / empty string field is the empty string "",   *)
(*    which is falsy in JavaScript exactly like undefined;                 *)
(*  - a missing numeric field is Absent (-1); prices are integers in       *)
(*    hundredths (cents), percentages are integers in tenths of a percent; *)
(*  - numbers that are compared with strings by === (instrument tokens)    *)
(*    are carried as text together with a type tag.                        *)
(***************************************************************************)
EXTENDS Integers, Sequences, FiniteSets, TLC

\* ------------------------------------------------------------------ bounds

\* Longest position list a broker returns to one exit-all call.
MaxPositions == 2
\* Longest order list a broker returns to one cancelAllOrders call.
MaxOrders == 5

\* ------------------------------------------------------------- vocabulary

Brokers == {"dhan", "upstox", "zerodha"}

Absent == 0 - 1

\* A number is truthy in JavaScript when it is present and not 0.
Truthy(n) == n # Absent /\ n # 0

\* The instruments a broker distributes (field names differ per broker:
\* symbol = tradingSymbol / tradingsymbol, id = securityId / instrument_key,
\* token = exchangeToken / instrument_token, a number).
Catalog ==
    << [symbol |-> "Infy", id |-> "S1", token |-> "101", exchange |-> "NSE"],
       [symbol |-> "TCS",  id |-> "S2", token |-> "102", exchange |-> "BSE"] >>

\* String.prototype.toUpperCase on the strings of the model.
toUpperCase(s) ==
    CASE s \in {"Infy", "infy", "INFY"} -> "INFY"
      [] s \in {"TCS", "tcs", "Tcs"} -> "TCS"
      [] s \in {"XYZ", "xyz"} -> "XYZ"
      [] s \in {"S1", "s1"} -> "S1"
      [] s \in {"S2", "s2"} -> "S2"
      [] OTHER -> s

\* String.prototype.toLowerCase on the order statuses of the model.
toLowerCase(s) ==
    CASE s \in {"OPEN", "Open", "open"} -> "open"
      [] s \in {"PENDING", "pending"} -> "pending"
      [] s \in {"TRIGGER PENDING", "Trigger Pending", "trigger pending"} -> "trigger pending"
      [] s \in {"VALIDATION_PENDING", "validation_pending"} -> "validation_pending"
      [] s \in {"COMPLETE", "complete"} -> "complete"
      [] OTHER -> s

\* A lookup key: typeof key and its text.
StrKey(s) == [type |-> IF s = "" THEN "undefined" ELSE "string", val |-> s]
NumKey(s) == [type |-> "number", val |-> s]

\* ------------------------------------------------------- instrument lookup

NotLoadedCache == [loaded |-> FALSE, list |-> << >>]
LoadedCache(list) == [loaded |-> TRUE, list |-> list]

\* Variant: a key that is neither a string nor a number matches every
\* instrument.
Mut_InstrumentMatches(b, instrument, key) ==
    IF key.type \in {"string", "number"}
    THEN \/ instrument.symbol = key.val
         \/ instrument.id = key.val
         \/ instrument.token = key.val
    ELSE TRUE

\* The predicate each adapter passes to Array.prototype.find.
InstrumentMatches(b, instrument, key) ==
    CASE b = "dhan" ->
           IF key.type = "string"
           THEN \/ instrument.symbol = key.val
                \/ toUpperCase(instrument.symbol) = toUpperCase(key.val)
                \/ instrument.id = key.val
           ELSE IF key.type = "number"
           THEN instrument.token = key.val
           ELSE FALSE
      [] b = "upstox" ->
           \/ (key.type = "string" /\ instrument.symbol = key.val)
           \/ (key.type = "number" /\ instrument.token = key.val)
           \/ (key.type = "string" /\ instrument.id = key.val)
      [] b = "zerodha" ->
           IF key.type = "string"
           THEN instrument.symbol = key.val
           ELSE IF key.type = "number"
           THEN instrument.token = key.val
           ELSE FALSE

\* Array.prototype.find: the index of the first match, 0 when there is none.
FindIndex(b, list, key) ==
    LET hits == {i \in 1..Len(list) : InstrumentMatches(b, list[i], key)}
    IN  IF hits = {} THEN 0 ELSE CHOOSE i \in hits : \A j \in hits : i <= j

\* Variant: the lookup does not test whether the catalog is loaded.
Mut_getInstrumentDetails(b, cache, key) ==
    LET i == FindIndex(b, cache.list, key)
    IN  [threw |-> FALSE, found |-> i # 0, index |-> i]

\* getInstrumentDetails(key) on an adapter whose instrumentsCache is `cache`:
\* throws "Instruments cache not loaded" on a null cache, else returns the
\* first match or undefined.
getInstrumentDetails(b, cache, key) ==
    IF ~cache.loaded
    THEN [threw |-> TRUE, found |-> FALSE, index |-> 0]
    ELSE LET i == FindIndex(b, cache.list, key)
         IN  [threw |-> FALSE, found |-> i # 0, index |-> i]

\* --------------------------------------------------------- mapping tables

\* DhanClient._mapProduct / ZerodhaClient._mapProduct: productMap[p] || dflt.
_mapProduct(b, product) ==
    CASE b = "dhan" ->
           CASE product = "INTRADAY" -> "INTRADAY"
             [] product = "DELIVERY" -> "DELIVERY"
             [] product = "MARGIN" -> "MARGIN"
             [] product = "NORMAL" -> "NORMAL"
             [] product = "MIS" -> "INTRADAY"
             [] product = "CNC" -> "DELIVERY"
             [] product = "NRML" -> "NORMAL"
             [] OTHER -> "INTRADAY"
      [] b = "zerodha" ->
           CASE product = "INTRADAY" -> "MIS"
             [] product = "DELIVERY" -> "CNC"
             [] product = "NORMAL" -> "NRML"
             [] product = "MIS" -> "MIS"
             [] product = "CNC" -> "CNC"
             [] product = "NRML" -> "NRML"
             [] OTHER -> "MIS"
      [] OTHER -> product   \* UpstoxClient has no table: the value passes through

\* DhanClient._mapOrderType / ZerodhaClient._mapOrderType.
_mapOrderType(b, orderType) ==
    CASE b = "dhan" ->
           CASE orderType = "MARKET" -> "MARKET"
             [] orderType = "LIMIT" -> "LIMIT"
             [] orderType = "SL" -> "SL"
             [] orderType = "SL-M" -> "SLM"
             [] OTHER -> "MARKET"
      [] b = "zerodha" ->
           CASE orderType = "MARKET" -> "MARKET"
             [] orderType = "LIMIT" -> "LIMIT"
             [] orderType = "SL" -> "SL"
             [] orderType = "SL-M" -> "SL-M"
             [] OTHER -> "MARKET"
      [] OTHER -> orderType   \* UpstoxClient has no table: the value passes through

\* ------------------------------------------------------------- placeOrder

\* The parameters object of placeOrder; "" / Absent for a field not given.
OrderParams(symbolName, securityId, exchange, transactionType, orderType, quantity, price, triggerPrice, product) ==
    [symbolName |-> symbolName, securityId |-> securityId,
     exchange |-> exchange, transactionType |-> transactionType,
     orderType |-> orderType, quantity |-> quantity, price |-> price,
     triggerPrice |-> triggerPrice, product |-> product]

\* The body of a write request to the broker. `instrument` is securityId
\* (Dhan), instrument_token (Upstox) or tradingsymbol (Zerodha); price and
\* triggerPrice are Absent when the request carries no such field.
NoRequest ==
    [instrument |-> "", exchange |-> "", transactionType |-> "",
     orderType |-> "", quantity |-> 0, product |-> "", validity |-> "",
     price |-> Absent, triggerPrice |-> Absent]

\* Whether the request carries the price: params.price is truthy and the
\* order type passes the adapter's test.
IncludesPrice(b, params) ==
    /\ Truthy(params.price)
    /\ IF b = "upstox"
       THEN params.orderType = "LIMIT"
       ELSE params.orderType \in {"LIMIT", "SL"}

\* Whether the request carries the trigger price. DhanClient tests the
\* mapped order type, the other two the caller's.
IncludesTriggerPrice(b, params) ==
    /\ Truthy(params.triggerPrice)
    /\ IF b = "dhan"
       THEN _mapOrderType(b, params.orderType) \in {"SL", "SLM"}
       ELSE params.orderType \in {"SL", "SL-M"}

\* Variant: every adapter resolves the symbol whatever the request carries.
Mut_ConsultsCatalog(b, params) == TRUE

\* Whether placeOrder calls getInstrumentDetails(params.symbolName).
ConsultsCatalog(b, params) ==
    CASE b = "dhan" -> params.securityId = ""
      [] b = "upstox" -> TRUE
      [] b = "zerodha" -> params.exchange = "" \/ params.symbolName = ""

\* placeOrder up to its first await: either it throws (no request leaves the
\* adapter) or it hands `req` to the transport. `axios` is whether the
\* adapter's transport object exists (UpstoxClient creates it on login).
placeOrder(b, cache, axios, params) ==
    LET look  == getInstrumentDetails(b, cache, StrKey(params.symbolName))
        instr == IF look.found THEN cache.list[look.index]
                 ELSE [symbol |-> "", id |-> "", token |-> "", exchange |-> ""]
        consults == ConsultsCatalog(b, params)
        product == IF params.product = "" THEN "INTRADAY" ELSE params.product
        req ==
          [instrument |->
             CASE b = "dhan" -> IF consults THEN instr.id ELSE params.securityId
               [] b = "upstox" -> instr.token
               [] b = "zerodha" -> IF consults THEN instr.symbol ELSE params.symbolName,
           exchange |->
             CASE b = "dhan" -> IF consults THEN instr.exchange ELSE params.exchange
               [] b = "upstox" -> IF params.exchange # "" THEN params.exchange
                                  ELSE instr.exchange
               [] b = "zerodha" -> IF consults THEN instr.exchange ELSE params.exchange,
           transactionType |-> params.transactionType,
           orderType |-> IF b = "upstox" THEN params.orderType
                         ELSE _mapOrderType(b, params.orderType),
           quantity |-> params.quantity,
           product |-> IF b = "upstox" THEN product ELSE _mapProduct(b, product),
           validity |-> IF b = "zerodha" THEN "day" ELSE "DAY",
           price |-> IF IncludesPrice(b, params) THEN params.price ELSE Absent,
           triggerPrice |-> IF IncludesTriggerPrice(b, params)
                            THEN params.triggerPrice ELSE Absent]
    IN  IF consults /\ look.threw
        THEN [sent |-> FALSE, error |-> "NotLoaded", req |-> NoRequest]
        ELSE IF consults /\ ~look.found
        THEN [sent |-> FALSE, error |-> "InstrumentNotFound", req |-> NoRequest]
        ELSE IF ~axios
        THEN [sent |-> FALSE, error |-> "TypeError", req |-> NoRequest]
        ELSE [sent |-> TRUE, error |-> "", req |-> req]

\* ------------------------------------------------------- exit computation

\* Math.abs.
Abs(n) == IF n < 0 THEN 0 - n ELSE n

\* Variant: the exit is placed on the side of the position instead of the
\* opposite side.
Mut_ExitTransactionType(quantity) == IF quantity > 0 THEN "BUY" ELSE "SELL"

\* position.quantity > 0 ? "SELL" : "BUY"
ExitTransactionType(quantity) == IF quantity > 0 THEN "SELL" ELSE "BUY"

\* The quotes and factors (in thousandths) of the model for which the IEEE
\* 754 double product ltp * (1 + pct / 100) * 100 lies below the exact value
\* k + 1/2 it stands for: 1.00 * (1 + 0.5 / 100) * 100 is 100.49999999999999
\* and 1.00 * (1 + 2.5 / 100) * 100 is 102.49999999999999. For every other
\* quote and factor of the model the double has the floor(y + 1/2) of the
\* exact value.
Float64BelowTie == {<<100, 1005>>, <<100, 1025>>}

\* Math.round(x * 100) / 100 for x = ltp * (permille / 1000), in cents, ltp
\* in cents: Math.round(y) is floor(y + 1/2) of the double y.
MathRound(ltp, permille) ==
    LET exact == (2 * ltp * permille + 1000) \div 2000
    IN  IF <<ltp, permille>> \in Float64BelowTie THEN exact - 1 ELSE exact

\* Variant: every adapter uses DhanClient's sign of the offset.
Mut_LimitPrice(b, transactionType, ltp, priceOffset) ==
    LET offset == IF Truthy(priceOffset) THEN priceOffset ELSE 0
    IN  (2 * ltp * (IF transactionType = "SELL" THEN 1000 + offset
                    ELSE 1000 - offset) + 1000) \div 2000

\* exitAllPositionsLimit: the limit price in cents for an LTP in cents and
\* params.priceOffset in tenths of a percent (params.priceOffset || 0).
LimitPrice(b, transactionType, ltp, priceOffset) ==
    LET offset == IF Truthy(priceOffset) THEN priceOffset ELSE 0
        up == IF b = "dhan" THEN transactionType = "SELL"
              ELSE transactionType # "SELL"
    IN  MathRound(ltp, IF up THEN 1000 + offset ELSE 1000 - offset)

\* Variant: UpstoxClient puts the stop loss on the other side of the price.
Mut_TriggerPrice(b, transactionType, ltp, slPercentage) ==
    LET sl == IF Truthy(slPercentage) THEN slPercentage ELSE 10
    IN  (2 * ltp * (IF (transactionType = "SELL") = (b # "upstox") THEN 1000 - sl
                    ELSE 1000 + sl) + 1000) \div 2000

\* exitAllPositionsAddStopLoss: the trigger price in cents
\* (params.slPercentage || 1, in tenths of a percent).
TriggerPrice(b, transactionType, ltp, slPercentage) ==
    LET sl == IF Truthy(slPercentage) THEN slPercentage ELSE 10
    IN  MathRound(ltp, IF transactionType = "SELL" THEN 1000 - sl ELSE 1000 + sl)

\* The order type each exit-all variant passes to placeOrder.
ExitOrderType(b, op) ==
    CASE op = "exitAllPositions" -> "MARKET"
      [] op = "exitAllPositionsLimit" -> "LIMIT"
      [] op = "exitAllPositionsAddStopLoss" ->
           IF b = "dhan" THEN "SLM" ELSE "SL-M"

\* The parameters an exit-all variant passes to placeOrder for one position.
ExitParams(b, op, position, price, triggerPrice) ==
    OrderParams(IF b = "dhan" THEN "" ELSE position.symbol,
                IF b = "dhan" THEN position.id ELSE "",
                position.exchange,
                ExitTransactionType(position.quantity),
                ExitOrderType(b, op),
                Abs(position.quantity),
                price, triggerPrice, position.product)

\* ------------------------------------------------------------ environment

\* What a broker may answer: the positions of listPositions ...
Quantities == {0 - 5, 0, 10}

\* The product vocabulary of each broker, as its adapter writes it.
NativeProducts(b) ==
    CASE b = "dhan" -> <<"INTRADAY", "DELIVERY">>
      [] b = "upstox" -> <<"I", "D">>
      [] b = "zerodha" -> <<"MIS", "CNC">>

\* A position in the first catalogued instrument: short, flat or long (the
\* long one held under the broker's second product).
PositionsOf(b) ==
    {[symbol |-> Catalog[1].symbol, id |-> Catalog[1].id,
      token |-> Catalog[1].token, exchange |-> Catalog[1].exchange,
      quantity |-> q,
      product |-> NativeProducts(b)[IF q > 0 THEN 2 ELSE 1]] : q \in Quantities}

\* All sequences over S of length at most n.
SeqsUpTo(S, n) == UNION {[1..k -> S] : k \in 0..n}

\* ... the orders of listOrders (order ids follow the list position) ...
OrderStatuses == {"OPEN", "COMPLETE"}
OrderIds == <<"O1", "O2", "O3", "O4", "O5", "O6">>
OrderListsUpTo(n) ==
    {[i \in 1..Len(st) |-> [orderId |-> OrderIds[i], status |-> st[i]]] :
        st \in SeqsUpTo(OrderStatuses, n)}
OrderLists == OrderListsUpTo(MaxOrders)

\* ... and the last traded price of a quote, in cents.
LtpValues == {0, 3333, 10000}

\* Quotes of 1.00, where 0.5 % and 2.5 % end on half a cent, and 33.33.
TieLtpValues == {100, 3333}

\* What a caller may pass: priceOffset / slPercentage in tenths of a percent
\* (Absent when the caller gives none) ...
PriceOffsets == {Absent, 5}
SlPercentages == {Absent, 25}

\* ... and the parameters of a direct placeOrder.
CallerParams ==
    {OrderParams(sym, sid, ex, "BUY", ot, 1, pr, tp, "") :
        sym \in {"", "Infy", "XYZ"}, sid \in {"", "S1"}, ex \in {"", "NSE"},
        ot \in {"MARKET", "LIMIT", "SL", "SL-M", "SLM"},
        pr \in {Absent, 0, 10050}, tp \in {Absent, 0, 9900}}

\* ... and the persisted catalog file: its age in hours when an adapter looks
\* at it, and the catalog it holds.
CacheMaxAgeHours == 24

NoFile == [exists |-> FALSE, age |-> 0, list |-> << >>]
File(age, list) == [exists |-> TRUE, age |-> age, list |-> list]

\* What a broker may answer to a catalog request: the catalog, an empty
\* catalog, or a failure.
Downloads == {Catalog, << >>}
NoResponse == [ok |-> FALSE, data |-> << >>]
Responses == {NoResponse} \cup {[ok |-> TRUE, data |-> d] : d \in Downloads}

\* The file a provider finds at start: none, a recent one, an old one.
InitialFiles == {NoFile, File(1, Catalog), File(25, Catalog)}

\* The file a refresh may find: none, or the catalog written 1, 24 or 25
\* hours ago.
FileAges == {1, 24, 25}
PersistedFiles == {NoFile} \cup {File(a, Catalog) : a \in FileAges}

\* The orders of a caller who varies the product and the order type.
MappingParams ==
    {OrderParams("Infy", "S1", "NSE", "BUY", ot, 1, 10050, 9900, pr) :
        ot \in {"MARKET", "LIMIT", "SL", "SL-M", "STOP"},
        pr \in {"INTRADAY", "DELIVERY", "MARGIN", "NORMAL", "BTST", ""}}

\* ------------------------------------------------------------------ state

VARIABLES
    brokerClients,     \* OrderProvider.brokerClients: the registered names
    initPc,            \* per adapter: "none", "pending" (session requested),
                       \* "downloading" (catalog requested), "done"
    axiosInstance,     \* per adapter: whether its transport object exists
    instrumentsCache,  \* per adapter: this.instrumentsCache
    cacheFile,         \* per broker: the persisted catalog file
    instrumentCache,   \* OrderProvider.instrumentCache: the provider's own snapshots
    call,              \* the facade call being served, or the last one served
    positions,         \* what listPositions returned to the call
    orders,            \* what listOrders returned to the call
    items,             \* the promises handed to Promise.all, in order
    result,            \* the aggregate the call returned
    brokerBook         \* the broker's side of one position: its quantity,
                       \* whether it is open, the exit quantity accepted

vars == <<brokerClients, initPc, axiosInstance, instrumentsCache, cacheFile,
          instrumentCache, call, positions, orders, items, result, brokerBook>>

\* The broker's book when no position is followed.
NoBook == [quantity |-> 0, open |-> FALSE, submitted |-> 0]

\* The registry, the adapters, the files and the provider's own snapshots:
\* what no order, exit or cancel call changes.
adapterVars == <<brokerClients, initPc, axiosInstance, instrumentsCache, cacheFile,
                 instrumentCache>>

ExitOps == {"exitAllPositions", "exitAllPositionsLimit",
            "exitAllPositionsAddStopLoss"}

NoCall == [broker |-> "", op |-> "", pc |-> "idle", priceOffset |-> Absent,
           slPercentage |-> Absent, credentials |-> "", error |-> ""]

NoResult == [success |-> FALSE, count |-> 0, details |-> << >>]

NoPosition == [symbol |-> "", id |-> "", token |-> "", exchange |-> "",
               quantity |-> 0, product |-> ""]

NoParams == OrderParams("", "", "", "", "", 0, Absent, Absent, "")

\* One promise of a fan-out. pc: "ltp" (quote requested), "posted" (write
\* or cancel request sent), "fulfilled", "null" (fulfilled with null),
\* "rejected". src: the list entry it serves; ltp: the quote it received;
\* params: what it passed to placeOrder; req: the write request it sent;
\* orderId: the order its cancel request names.
Item(src, pc, ltp, params, req, orderId, error) ==
    [src |-> src, pc |-> pc, ltp |-> ltp, params |-> params, req |-> req,
     orderId |-> orderId, error |-> error]

\* Whether the promise has sent a write or cancel request to the broker.
Sent(item) == item.req # NoRequest \/ item.orderId # ""

InFlight(item) == item.pc \in {"ltp", "posted"}

\* ------------------------------------------------------- catalog loading

\* shouldDownload: there is no file, or cacheAge > 24 * 60 * 60 * 1000.
ShouldDownload(file) == ~file.exists \/ file.age > CacheMaxAgeHours

\* Variant: after a download the snapshot is read from the file as it was
\* before the write.
Mut_Downloaded(b, file, cache, response) ==
    IF response.ok
    THEN [cache |-> LoadedCache(file.list), file |-> File(0, response.data)]
    ELSE [cache |-> cache, file |-> file]

\* _loadInstrumentsCache from the answer to its catalog request on: a
\* downloaded catalog is written to the file (the file as it is then, which
\* another refresh may have written meanwhile, is replaced) and becomes the
\* snapshot. DhanClient falls back to an existing file when the download
\* fails; in the other two the failure is caught by the outer handler and
\* nothing is loaded.
Downloaded(b, file, cache, response) ==
    IF response.ok
    THEN [cache |-> LoadedCache(response.data), file |-> File(0, response.data)]
    ELSE IF b = "dhan" /\ file.exists
    THEN [cache |-> LoadedCache(file.list), file |-> file]
    ELSE [cache |-> cache, file |-> file]

\* _loadInstrumentsCache: the adapter's snapshot and the persisted file after
\* the call, given the broker's answer to the catalog request (not consulted
\* when the file is reused).
_loadInstrumentsCache(b, file, cache, response) ==
    IF ~ShouldDownload(file)
    THEN [cache |-> LoadedCache(file.list), file |-> file]
    ELSE Downloaded(b, file, cache, response)

\* The credentials an adapter is constructed with: an access token, a request
\* token to be exchanged for a session, or none at all (undefined).
Credentials == {"token", "request", "missing"}

\* Whether _initialize first obtains a session, whose failure skips the load:
\* UpstoxClient._authenticate always, ZerodhaClient._generateSession when it
\* has a request token and no access token.
NeedsSession(b, credentials) ==
    \/ b = "upstox" /\ credentials # "missing"
    \/ b = "zerodha" /\ credentials = "request"

\* Variant: no constructor reads a field of its credentials.
Mut_ConstructorThrows(b, credentials) == FALSE

\* Whether `new Client(credentials)` throws: DhanClient and ZerodhaClient
\* read a field of credentials in the constructor.
ConstructorThrows(b, credentials) ==
    credentials = "missing" /\ b \in {"dhan", "zerodha"}

\* Variant: the constructor starts with an empty catalog instead of none.
Mut_Constructed(b, credentials, file) ==
    IF ~NeedsSession(b, credentials) /\ ~ShouldDownload(file)
    THEN [pc |-> "done", axios |-> TRUE, cache |-> LoadedCache(file.list)]
    ELSE [pc |-> IF NeedsSession(b, credentials) THEN "pending" ELSE "downloading",
          axios |-> b # "upstox", cache |-> LoadedCache(<< >>)]

\* The adapter `new Client(credentials)` returns. The constructor calls
\* _initialize, which runs up to its first await: the session request, or
\* else the catalog request, or else to its end when the file is reused
\* (read synchronously). UpstoxClient without credentials fails in
\* _authenticate before any request and stays without transport.
Constructed(b, credentials, file) ==
    IF b = "upstox" /\ credentials = "missing"
    THEN [pc |-> "done", axios |-> FALSE, cache |-> NotLoadedCache]
    ELSE IF NeedsSession(b, credentials)
    THEN [pc |-> "pending", axios |-> b # "upstox", cache |-> NotLoadedCache]
    ELSE IF ShouldDownload(file)
    THEN [pc |-> "downloading", axios |-> TRUE, cache |-> NotLoadedCache]
    ELSE [pc |-> "done", axios |-> TRUE, cache |-> LoadedCache(file.list)]

\* _initialize resumes with the answer to its session request: on failure
\* it ends; otherwise _loadInstrumentsCache runs up to its catalog request,
\* or to its end when the file is reused.
Initialize(b) ==
    /\ initPc[b] = "pending"
    /\ \E sessionOk \in BOOLEAN :
         IF ~sessionOk
         THEN /\ initPc' = [initPc EXCEPT ![b] = "done"]
              /\ UNCHANGED <<axiosInstance, instrumentsCache, cacheFile>>
         ELSE /\ axiosInstance' = [axiosInstance EXCEPT ![b] = TRUE]
              /\ IF ShouldDownload(cacheFile[b])
                 THEN /\ initPc' = [initPc EXCEPT ![b] = "downloading"]
                      /\ UNCHANGED <<instrumentsCache, cacheFile>>
                 ELSE LET l == _loadInstrumentsCache(b, cacheFile[b],
                                     instrumentsCache[b], NoResponse)
                      IN  /\ initPc' = [initPc EXCEPT ![b] = "done"]
                          /\ instrumentsCache' = [instrumentsCache EXCEPT ![b] = l.cache]
                          /\ UNCHANGED cacheFile
    /\ UNCHANGED <<brokerClients, instrumentCache, call, positions, orders, items, result>>
    /\ UNCHANGED brokerBook

\* The broker answers the catalog request of _loadInstrumentsCache.
DownloadResponse(b) ==
    /\ initPc[b] = "downloading"
    /\ initPc' = [initPc EXCEPT ![b] = "done"]
    /\ \E response \in Responses :
         LET l == Downloaded(b, cacheFile[b], instrumentsCache[b], response)
         IN  /\ instrumentsCache' = [instrumentsCache EXCEPT ![b] = l.cache]
             /\ cacheFile' = [cacheFile EXCEPT ![b] = l.file]
    /\ UNCHANGED <<brokerClients, axiosInstance, instrumentCache,
                   call, positions, orders, items, result, brokerBook>>

\* The state after `new OrderProvider(config)` for a configuration naming one
\* broker b with these credentials, the file of b being f: the adapter of b
\* has been constructed.
Provider(b, credentials, f) ==
    LET a == Constructed(b, credentials, f)
    IN  /\ brokerClients = {b}
        /\ initPc = [x \in Brokers |-> IF x = b THEN a.pc ELSE "none"]
        /\ axiosInstance = [x \in Brokers |-> x = b /\ a.axios]
        /\ instrumentsCache = [x \in Brokers |-> IF x = b THEN a.cache
                                                 ELSE NotLoadedCache]
        /\ cacheFile = [x \in Brokers |-> IF x = b THEN f ELSE NoFile]
        /\ instrumentCache = [x \in Brokers |-> NotLoadedCache]
        /\ call = NoCall
        /\ positions = << >>
        /\ orders = << >>
        /\ items = << >>
        /\ result = NoResult

Init ==
    \E b \in Brokers, f \in InitialFiles, credentials \in {"token", "request"} :
        /\ Provider(b, credentials, f)
        /\ brokerBook = NoBook

\* ---------------------------------------------------------- bulk fan-out

Rejected(its) == {i \in 1..Len(its) : its[i].pc = "rejected"}

AllFulfilled(its) == \A i \in 1..Len(its) : its[i].pc \in {"fulfilled", "null"}

\* The object a bulk operation returns: results.length and results, a null
\* for a promise that was fulfilled with null.
Aggregate(its) ==
    [success |-> TRUE, count |-> Len(its),
     details |-> [i \in 1..Len(its) |->
                    [src |-> its[i].src, null |-> its[i].pc = "null"]]]

\* The continuation of `await Promise.all(promises)`: it throws as soon as
\* one promise is rejected and returns once all are fulfilled. A call that
\* has already thrown is not affected by promises that settle later.
Conclude(c, its) ==
    IF c.pc # "awaiting" THEN c
    ELSE IF Rejected(its) # {}
    THEN LET first == CHOOSE i \in Rejected(its) : \A j \in Rejected(its) : i <= j
         IN  [c EXCEPT !.pc = "thrown", !.error = its[first].error]
    ELSE IF AllFulfilled(its) THEN [c EXCEPT !.pc = "returned"]
    ELSE c

\* The promise placeOrder(params) returns: a write request in flight, or a
\* rejection when placeOrder threw before sending.
PlacedItem(b, src, ltp, params) ==
    LET r == placeOrder(b, instrumentsCache[b], axiosInstance[b], params)
    IN  IF r.sent
        THEN Item(src, "posted", ltp, params, r.req, "", "")
        ELSE Item(src, "rejected", ltp, params, NoRequest, "", r.error)

\* exitAllPositions: positions.map(...).filter(Boolean). The callback is
\* synchronous, so a zero-quantity position yields null and is filtered out.
MarketItems(b, ps) ==
    LET idx == SelectSeq([i \in 1..Len(ps) |-> i],
                         LAMBDA i : ps[i].quantity # 0)
    IN  [k \in 1..Len(idx) |->
           PlacedItem(b, idx[k], Absent,
                      ExitParams(b, "exitAllPositions", ps[idx[k]], Absent, Absent))]

\* exitAllPositionsLimit / exitAllPositionsAddStopLoss: the callback is
\* async, so every position yields a promise, which filter(Boolean) keeps;
\* the one of a zero-quantity position is fulfilled with null, the others
\* have requested their quote.
QuotedItems(b, ps) ==
    [i \in 1..Len(ps) |->
       IF ps[i].quantity = 0
       THEN Item(i, "null", Absent, NoParams, NoRequest, "", "")
       ELSE Item(i, "ltp", Absent, NoParams, NoRequest, "", "")]

\* The status test of cancelAllOrders.
OpenStatuses(b) ==
    IF b = "upstox" THEN {"open", "pending", "validation_pending"}
    ELSE {"open", "pending", "trigger pending"}

\* Variant: the status is compared without lower-casing it.
Mut_IsOpen(b, order) == order.status \in {"open", "pending", "trigger pending"}

IsOpen(b, order) == toLowerCase(order.status) \in OpenStatuses(b)

\* cancelAllOrders: one cancel request per open order.
CancelItems(b, os) ==
    LET idx == SelectSeq([i \in 1..Len(os) |-> i], LAMBDA i : IsOpen(b, os[i]))
    IN  [k \in 1..Len(idx) |->
           Item(idx[k], "posted", Absent, NoParams, NoRequest, os[idx[k]].orderId, "")]

\* A facade call is taken when no other is being served.
CanStart == call.pc = "idle"

\* The call has its promises `its`: it waits on them, or concludes at once.
Begin(c, ps, os, its) ==
    /\ call' = Conclude([c EXCEPT !.pc = "awaiting"], its)
    /\ positions' = ps
    /\ orders' = os
    /\ items' = its
    /\ result' = IF call'.pc = "returned" THEN Aggregate(its) ELSE NoResult
    /\ UNCHANGED <<adapterVars, brokerBook>>

\* The call throws before any promise exists.
Throw(c, error) ==
    /\ call' = [c EXCEPT !.pc = "thrown", !.error = error]
    /\ positions' = << >>
    /\ orders' = << >>
    /\ items' = << >>
    /\ result' = NoResult
    /\ UNCHANGED <<adapterVars, brokerBook>>

NewCall(b, op, priceOffset, slPercentage) ==
    [broker |-> b, op |-> op, pc |-> "idle", priceOffset |-> priceOffset,
     slPercentage |-> slPercentage, credentials |-> "", error |-> ""]

\* Variant: the provider hands out an adapter for any name.
Mut_getBrokerClientUnchecked(registry, brokerName) ==
    [threw |-> FALSE, client |-> brokerName]

\* Variant: the provider resolves a name to some other registered adapter
\* when there is one.
Mut_getBrokerClient(registry, brokerName) ==
    [threw |-> brokerName \notin registry,
     client |-> IF registry \ {brokerName} = {} THEN brokerName
                ELSE CHOOSE x \in registry \ {brokerName} : TRUE]

\* OrderProvider.getBrokerClient: throws "Broker ... is not registered" for a
\* name without entry, else returns the adapter registered under the name.
getBrokerClient(registry, brokerName) ==
    [threw |-> brokerName \notin registry, client |-> brokerName]

\* OrderProvider.placeOrder(brokerName, params) -> adapter.placeOrder(params),
\* for the parameters in P.
PlaceOrderFrom(brokerName, P) ==
    /\ CanStart
    /\ LET c == NewCall(brokerName, "placeOrder", Absent, Absent)
           g == getBrokerClient(brokerClients, brokerName)
       IN  IF g.threw
           THEN Throw(c, "BrokerNotRegistered")
           ELSE \E params \in P :
                  Begin(c, << >>, << >>, << PlacedItem(g.client, 1, Absent, params) >>)

PlaceOrder(b) == PlaceOrderFrom(b, CallerParams)

\* OrderProvider.exitAllPositions* -> adapter.exitAllPositions*: the list
\* request, then the fan-out over the positions it returned (at most n).
ExitAllFrom(brokerName, op, n) ==
    /\ CanStart
    /\ \E po \in (IF op = "exitAllPositionsLimit" THEN PriceOffsets ELSE {Absent}),
          sl \in (IF op = "exitAllPositionsAddStopLoss" THEN SlPercentages ELSE {Absent}) :
         LET c == NewCall(brokerName, op, po, sl)
             g == getBrokerClient(brokerClients, brokerName)
             b == g.client
         IN  \/ /\ g.threw
                /\ Throw(c, "BrokerNotRegistered")
             \/ /\ ~g.threw
                /\ ~axiosInstance[b]
                /\ Throw(c, "TypeError")
             \/ /\ ~g.threw
                /\ axiosInstance[b]
                /\ Throw(c, "BrokerError")
             \/ /\ ~g.threw
                /\ axiosInstance[b]
                /\ \E ps \in SeqsUpTo(PositionsOf(b), n) :
                     Begin(c, ps, << >>,
                           IF op = "exitAllPositions" THEN MarketItems(b, ps)
                           ELSE QuotedItems(b, ps))

ExitAll(b, op) == ExitAllFrom(b, op, MaxPositions)

\* OrderProvider.cancelAllOrders -> adapter.cancelAllOrders, for a list of at
\* most n orders.
CancelAllOrdersFrom(brokerName, n) ==
    /\ CanStart
    /\ LET c == NewCall(brokerName, "cancelAllOrders", Absent, Absent)
           g == getBrokerClient(brokerClients, brokerName)
           b == g.client
       IN  \/ /\ g.threw
              /\ Throw(c, "BrokerNotRegistered")
           \/ /\ ~g.threw
              /\ ~axiosInstance[b]
              /\ Throw(c, "TypeError")
           \/ /\ ~g.threw
              /\ axiosInstance[b]
              /\ Throw(c, "BrokerError")
           \/ /\ ~g.threw
              /\ axiosInstance[b]
              /\ \E os \in OrderListsUpTo(n) : Begin(c, << >>, os, CancelItems(b, os))

CancelAllOrders(b) == CancelAllOrdersFrom(b, MaxOrders)

\* One promise of the fan-out takes a step; the call concludes with it when
\* that settles Promise.all.
Settle(i, item) ==
    /\ items' = [items EXCEPT ![i] = item]
    /\ call' = Conclude(call, items')
    /\ result' = IF call.pc = "awaiting" /\ call'.pc = "returned"
                 THEN Aggregate(items') ELSE result
    /\ UNCHANGED <<positions, orders>>
    /\ UNCHANGED adapterVars

\* ... as every call sees it when the broker's book is not followed.
Step(i, item) == Settle(i, item) /\ UNCHANGED brokerBook

\* The quote request of promise i is answered: _getLTP returns the price or
\* throws; with the price the callback computes the exit order and calls
\* placeOrder.
LtpResponseFrom(i, L) ==
    /\ i \in 1..Len(items)
    /\ items[i].pc = "ltp"
    /\ \/ Step(i, [items[i] EXCEPT !.pc = "rejected", !.error = "BrokerError"])
       \/ \E ltp \in L :
            LET b == call.broker
                tt == ExitTransactionType(positions[i].quantity)
                limit == call.op = "exitAllPositionsLimit"
                price == IF limit THEN LimitPrice(b, tt, ltp, call.priceOffset)
                         ELSE Absent
                trigger == IF limit THEN Absent
                           ELSE TriggerPrice(b, tt, ltp, call.slPercentage)
            IN  Step(i, PlacedItem(b, i, ltp,
                         ExitParams(b, call.op, positions[i], price, trigger)))

LtpResponse(i) == LtpResponseFrom(i, LtpValues)

\* The write or cancel request of promise i is answered by the broker.
OrderResponse(i) ==
    /\ i \in 1..Len(items)
    /\ items[i].pc = "posted"
    /\ \/ Step(i, [items[i] EXCEPT !.pc = "fulfilled"])
       \/ Step(i, [items[i] EXCEPT !.pc = "rejected", !.error = "BrokerError"])

\* The caller has the outcome of its call (the aggregate or the error) and
\* every request of the call has been answered: the next call can be taken.
Return ==
    /\ call.pc \in {"returned", "thrown"}
    /\ \A i \in 1..Len(items) : ~InFlight(items[i])
    /\ call' = NoCall
    /\ positions' = << >>
    /\ orders' = << >>
    /\ items' = << >>
    /\ result' = NoResult
    /\ UNCHANGED <<adapterVars, brokerBook>>

\* ------------------------------------------- lookups, refresh, registry

\* The keys a caller looks up: a symbol as catalogued, upper-cased, a
\* security id, an unknown symbol, an exchange token (a number), an unknown
\* number, undefined, and a value that is neither string nor number.
LookupKeys ==
    {StrKey("Infy"), StrKey("INFY"), StrKey("S1"), StrKey("XYZ"),
     NumKey("101"), NumKey("999"), StrKey(""), [type |-> "object", val |-> ""]}

NoInstrument == [symbol |-> "", id |-> "", token |-> "", exchange |-> ""]

\* What a lookup returns: the instrument found, or undefined / null.
LookupResult(key, found, instrument) ==
    [key |-> key, found |-> found, instrument |-> instrument]

\* A call that returns `value` without awaiting anything.
Returns(c, value) ==
    /\ call' = [c EXCEPT !.pc = "returned"]
    /\ positions' = << >>
    /\ orders' = << >>
    /\ items' = << >>
    /\ result' = value
    /\ UNCHANGED brokerBook

\* OrderProvider.getInstrumentDetails(brokerName, key)
\*   -> adapter.getInstrumentDetails(key).
GetInstrumentDetails(brokerName) ==
    /\ CanStart
    /\ LET c == NewCall(brokerName, "getInstrumentDetails", Absent, Absent)
           g == getBrokerClient(brokerClients, brokerName)
           b == g.client
       IN  IF g.threw
           THEN Throw(c, "BrokerNotRegistered")
           ELSE \E key \in LookupKeys :
                  LET r == getInstrumentDetails(b, instrumentsCache[b], key)
                  IN  IF r.threw
                      THEN Throw(c, "NotLoaded")
                      ELSE /\ Returns(c, LookupResult(key, r.found,
                                  IF r.found THEN instrumentsCache[b].list[r.index]
                                  ELSE NoInstrument))
                           /\ UNCHANGED adapterVars

\* OrderProvider.findInstrumentBySecurityId(brokerName, key): a scan of the
\* provider's own snapshot, which only "upstox" has; null otherwise.
findInstrumentBySecurityId(cache, brokerName, key) ==
    IF ~cache[brokerName].loaded \/ brokerName # "upstox"
    THEN LookupResult(key, FALSE, NoInstrument)
    ELSE LET i == FindIndex("upstox", cache.upstox.list, key)
         IN  LookupResult(key, i # 0,
                          IF i # 0 THEN cache.upstox.list[i] ELSE NoInstrument)

FindInstrumentBySecurityId(brokerName) ==
    /\ CanStart
    /\ \E key \in LookupKeys :
         Returns(NewCall(brokerName, "findInstrumentBySecurityId", Absent, Absent),
                 findInstrumentBySecurityId(instrumentCache, brokerName, key))
    /\ UNCHANGED adapterVars

\* OrderProvider.updateInstrumentCache(brokerName): for "upstox" the provider
\* itself requests the catalog; for any other name it returns false.
UpdateInstrumentCache(brokerName) ==
    /\ CanStart
    /\ LET c == NewCall(brokerName, "updateInstrumentCache", Absent, Absent)
       IN  IF brokerName = "upstox"
           THEN /\ call' = [c EXCEPT !.pc = "awaiting"]
                /\ UNCHANGED <<positions, orders, items, result>>
           ELSE Returns(c, [NoResult EXCEPT !.success = FALSE])
    /\ UNCHANGED <<adapterVars, brokerBook>>

\* _updateUpstoxInstrumentCache after its catalog request: the download is
\* written to the file and becomes the provider's snapshot, and the call
\* returns true; on failure it returns false.
UpdateResponse ==
    /\ call.op = "updateInstrumentCache"
    /\ call.pc = "awaiting"
    /\ call' = [call EXCEPT !.pc = "returned"]
    /\ \E response \in Responses :
         IF response.ok
         THEN /\ cacheFile' = [cacheFile EXCEPT !["upstox"] = File(0, response.data)]
              /\ instrumentCache' = [instrumentCache EXCEPT
                                       !["upstox"] = LoadedCache(response.data)]
              /\ result' = [NoResult EXCEPT !.success = TRUE]
         ELSE /\ result' = [NoResult EXCEPT !.success = FALSE]
              /\ UNCHANGED <<cacheFile, instrumentCache>>
    /\ UNCHANGED <<brokerClients, initPc, axiosInstance, instrumentsCache,
                   positions, orders, items, brokerBook>>

\* The facade operations that are one request of the adapter.
RequestOps == {"cancelSingleOrder", "listAllPositions", "listAllHoldings"}

\* OrderProvider.cancelSingleOrder / listAllPositions / listAllHoldings
\*   -> adapter.cancelOrder(orderId) / listPositions() / listHoldings().
Delegate(brokerName, op) ==
    /\ CanStart
    /\ LET c == NewCall(brokerName, op, Absent, Absent)
           g == getBrokerClient(brokerClients, brokerName)
           b == g.client
       IN  \/ /\ g.threw
              /\ Throw(c, "BrokerNotRegistered")
           \/ /\ ~g.threw
              /\ ~axiosInstance[b]
              /\ Throw(c, "TypeError")
           \/ /\ ~g.threw
              /\ axiosInstance[b]
              /\ Begin(c, << >>, << >>,
                       << Item(1, "posted", Absent, NoParams, NoRequest,
                               IF op = "cancelSingleOrder" THEN OrderIds[1] ELSE "",
                               "") >>)

\* What an adapter that is being replaced may still write to its file: the
\* answer to a catalog request it has not finished.
OrphanWrites(brokerName) ==
    {cacheFile[brokerName]} \cup
    (IF initPc[brokerName] \in {"pending", "downloading"}
     THEN {File(0, d) : d \in Downloads} ELSE {})

\* OrderProvider.registerBroker(brokerName, credentials), between two calls:
\* the adapter is constructed and stored under the name; when the
\* constructor throws, the error is logged and nothing is stored.
RegisterBroker(brokerName, credentials) ==
    /\ CanStart
    /\ Returns([NewCall(brokerName, "registerBroker", Absent, Absent)
                  EXCEPT !.credentials = credentials], NoResult)
    /\ UNCHANGED instrumentCache
    /\ IF ConstructorThrows(brokerName, credentials)
       THEN UNCHANGED <<brokerClients, initPc, axiosInstance, instrumentsCache, cacheFile>>
       ELSE LET a == Constructed(brokerName, credentials, cacheFile[brokerName])
            IN  /\ brokerClients' = brokerClients \cup {brokerName}
                /\ initPc' = [initPc EXCEPT ![brokerName] = a.pc]
                /\ axiosInstance' = [axiosInstance EXCEPT ![brokerName] = a.axios]
                /\ instrumentsCache' = [instrumentsCache EXCEPT ![brokerName] = a.cache]
                /\ \E f \in OrphanWrites(brokerName) :
                     cacheFile' = [cacheFile EXCEPT ![brokerName] = f]

Next ==
    \/ \E b \in Brokers : Initialize(b)
    \/ \E b \in Brokers : DownloadResponse(b)
    \/ \E b \in Brokers : PlaceOrder(b)
    \/ \E b \in Brokers, op \in ExitOps : ExitAll(b, op)
    \/ \E b \in Brokers : CancelAllOrders(b)
    \/ \E i \in 1..MaxOrders : LtpResponse(i)
    \/ \E i \in 1..MaxOrders : OrderResponse(i)
    \/ Return

Spec == Init /\ [][Next]_vars

\* One adapter, its catalog and the lookups: the provider is constructed for
\* one broker, whatever file it finds; orders vary product and order type.
CatalogInit ==
    \E b \in Brokers, f \in PersistedFiles, credentials \in Credentials :
        /\ ~ConstructorThrows(b, credentials)
        /\ Provider(b, credentials, f)
        /\ brokerBook = NoBook

CatalogNext ==
    \/ \E b \in Brokers : Initialize(b)
    \/ \E b \in Brokers : DownloadResponse(b)
    \/ \E b \in Brokers : GetInstrumentDetails(b)
    \/ \E b \in Brokers : FindInstrumentBySecurityId(b)
    \/ \E b \in Brokers : UpdateInstrumentCache(b)
    \/ UpdateResponse
    \/ \E b \in Brokers : PlaceOrderFrom(b, MappingParams)
    \/ \E i \in DOMAIN items : OrderResponse(i)
    \/ Return

CatalogSpec == CatalogInit /\ [][CatalogNext]_vars

\* The registry and every facade operation: the provider is constructed with
\* an empty configuration and brokers are registered afterwards; the bulk
\* operations get lists of at most one entry.
FacadeInit ==
    /\ brokerClients = {}
    /\ initPc = [x \in Brokers |-> "none"]
    /\ axiosInstance = [x \in Brokers |-> FALSE]
    /\ instrumentsCache = [x \in Brokers |-> NotLoadedCache]
    /\ cacheFile = [x \in Brokers |-> NoFile]
    /\ instrumentCache = [x \in Brokers |-> NotLoadedCache]
    /\ call = NoCall
    /\ positions = << >>
    /\ orders = << >>
    /\ items = << >>
    /\ result = NoResult
    /\ brokerBook = NoBook

FacadeParams ==
    {OrderParams("Infy", sid, "NSE", "BUY", "MARKET", 1, Absent, Absent, "") :
        sid \in {"", "S1"}}

FacadeNext ==
    \/ \E b \in Brokers, credentials \in Credentials : RegisterBroker(b, credentials)
    \/ \E b \in Brokers : Initialize(b)
    \/ \E b \in Brokers : DownloadResponse(b)
    \/ \E b \in Brokers : PlaceOrderFrom(b, FacadeParams)
    \/ \E b \in Brokers, op \in ExitOps : ExitAllFrom(b, op, 1)
    \/ \E b \in Brokers : CancelAllOrdersFrom(b, 1)
    \/ \E b \in Brokers, op \in RequestOps : Delegate(b, op)
    \/ \E b \in Brokers : GetInstrumentDetails(b)
    \/ \E b \in Brokers : FindInstrumentBySecurityId(b)
    \/ \E b \in Brokers : UpdateInstrumentCache(b)
    \/ UpdateResponse
    \/ \E i \in DOMAIN items : LtpResponse(i)
    \/ \E i \in DOMAIN items : OrderResponse(i)
    \/ Return

FacadeSpec == FacadeInit /\ [][FacadeNext]_vars

\* ---------------------------------------------------------- list methods

\* The values a successful list request may resolve to: a JavaScript null or
\* undefined, an array, or an object whose payload field (`data` of the
\* Upstox envelope, `net` of Kite's positions object) is one of the former.
JsNull == [type |-> "null", list |-> << >>, field |-> "none"]
JsUndefined == [type |-> "undefined", list |-> << >>, field |-> "none"]
JsArray(list) == [type |-> "array", list |-> list, field |-> "none"]
JsObject(field, list) == [type |-> "object", list |-> list, field |-> field]

ListPayloads == {<< >>, << "a" >>, << "a", "b" >>}

JsValues ==
    {JsNull, JsUndefined}
      \cup {JsArray(l) : l \in ListPayloads}
      \cup {JsObject(f, << >>) : f \in {"null", "undefined"}}
      \cup {JsObject("array", l) : l \in ListPayloads}

ListMethods == {"listOrders", "listPositions", "listHoldings"}

\* The values a successful request of adapter b may resolve to. Dhan answers
\* with the array itself, Upstox with an envelope whose `data` is the array,
\* KiteConnect with the array or, for positions, an object whose `net` is the
\* array; the array may be missing (null or undefined) in each.
Answers(b, method) ==
    IF b = "upstox" \/ (b = "zerodha" /\ method = "listPositions")
    THEN {v \in JsValues : v.type = "object"}
    ELSE {v \in JsValues : v.type # "object"}

\* `value || []`.
OrEmptyList(value) ==
    IF value.type \in {"null", "undefined"} THEN JsArray(<< >>) ELSE value

\* `value.field`: a TypeError on null and undefined, undefined on an array,
\* the payload of an object.
Member(value) ==
    CASE value.type \in {"null", "undefined"} -> [threw |-> TRUE, value |-> JsUndefined]
      [] value.type = "array" -> [threw |-> FALSE, value |-> JsUndefined]
      [] value.type = "object" ->
           [threw |-> FALSE,
            value |-> CASE value.field = "null" -> JsNull
                        [] value.field = "undefined" -> JsUndefined
                        [] value.field = "array" -> JsArray(value.list)]

\* What the list method of adapter b returns when its request resolves to
\* `value` (response.data of axios for Dhan and Upstox, the value of the
\* KiteConnect promise for Zerodha).
ListReturn(b, method, value) ==
    CASE b = "dhan" -> [threw |-> FALSE, value |-> OrEmptyList(value)]
      [] b = "upstox" ->
           LET m == Member(value)
           IN  [threw |-> m.threw, value |-> OrEmptyList(m.value)]
      [] b = "zerodha" ->
           IF method = "listPositions" THEN Member(value)
           ELSE [threw |-> FALSE, value |-> value]

\* adapter.listOrders / listPositions / listHoldings: the request is sent
\* (a TypeError without transport).
ListCall(b, method) ==
    /\ CanStart
    /\ LET c == NewCall(b, method, Absent, Absent)
       IN  IF ~axiosInstance[b]
           THEN Throw(c, "TypeError")
           ELSE /\ call' = [c EXCEPT !.pc = "awaiting"]
                /\ UNCHANGED <<positions, orders, items, result>>
                /\ UNCHANGED <<adapterVars, brokerBook>>

\* The broker answers the list request: a failure is rethrown, a success is
\* returned as the method shapes it.
ListResponse ==
    /\ call.op \in ListMethods
    /\ call.pc = "awaiting"
    /\ \/ /\ call' = [call EXCEPT !.pc = "thrown", !.error = "BrokerError"]
          /\ UNCHANGED result
       \/ \E value \in Answers(call.broker, call.op) :
            LET r == ListReturn(call.broker, call.op, value)
            IN  /\ call' = [call EXCEPT !.pc = IF r.threw THEN "thrown" ELSE "returned",
                                        !.error = IF r.threw THEN "TypeError" ELSE ""]
                /\ result' = [answer |-> value, value |-> r.value]
    /\ UNCHANGED <<positions, orders, items>>
    /\ UNCHANGED <<adapterVars, brokerBook>>

\* One adapter and its list methods.
ListNext ==
    \/ \E b \in Brokers : Initialize(b)
    \/ \E b \in Brokers : DownloadResponse(b)
    \/ \E b \in Brokers, method \in ListMethods : ListCall(b, method)
    \/ ListResponse
    \/ Return

ListSpec == CatalogInit /\ [][ListNext]_vars

\* The exit-all variants on quotes that end on half a cent.
RoundingNext ==
    \/ \E b \in Brokers : Initialize(b)
    \/ \E b \in Brokers : DownloadResponse(b)
    \/ \E b \in Brokers, op \in ExitOps : ExitAllFrom(b, op, 1)
    \/ \E i \in DOMAIN items : LtpResponseFrom(i, TieLtpValues)
    \/ \E i \in DOMAIN items : OrderResponse(i)
    \/ Return

RoundingSpec == Init /\ [][RoundingNext]_vars

\* ------------------------------------------------ the broker's book

\* How many times the open quantity the broker accepts as exits before the
\* position is executed.
MaxExitCalls == 2

\* What listPositions answers from the book: the position while it is open.
OpenAtBroker(b) ==
    IF ~brokerBook.open THEN << >>
    ELSE << CHOOSE p \in PositionsOf(b) : p.quantity = brokerBook.quantity >>

\* exitAllPositions* on an adapter whose broker reports the book.
ExitAllOpen(b, op) ==
    /\ brokerBook.submitted < MaxExitCalls * Abs(brokerBook.quantity)
    /\ ExitAllFrom(b, op, 1)
    /\ call'.pc # "thrown" => positions' = OpenAtBroker(b)

\* The broker answers the write request of promise i: an accepted order is
\* entered in the book.
OrderBooked(i) ==
    /\ i \in 1..Len(items)
    /\ items[i].pc = "posted"
    /\ \/ /\ Settle(i, [items[i] EXCEPT !.pc = "fulfilled"])
          /\ brokerBook' = [brokerBook EXCEPT !.submitted = @ + items[i].req.quantity]
       \/ /\ Settle(i, [items[i] EXCEPT !.pc = "rejected", !.error = "BrokerError"])
          /\ UNCHANGED brokerBook

\* The broker executes the exits it holds: the position is closed.
BrokerFills ==
    /\ brokerBook.open
    /\ brokerBook.submitted >= Abs(brokerBook.quantity)
    /\ brokerBook' = [brokerBook EXCEPT !.open = FALSE]
    /\ UNCHANGED <<adapterVars, call, positions, orders, items, result>>

\* One adapter and one position open at its broker.
ExitInit ==
    \E b \in Brokers, f \in InitialFiles, credentials \in {"token", "request"},
       q \in Quantities \ {0} :
        /\ Provider(b, credentials, f)
        /\ brokerBook = [quantity |-> q, open |-> TRUE, submitted |-> 0]

ExitNext ==
    \/ \E b \in Brokers : Initialize(b)
    \/ \E b \in Brokers : DownloadResponse(b)
    \/ \E b \in Brokers, op \in ExitOps : ExitAllOpen(b, op)
    \/ \E i \in DOMAIN items : LtpResponse(i)
    \/ \E i \in DOMAIN items : OrderBooked(i)
    \/ BrokerFills
    \/ Return

ExitSpec == ExitInit /\ [][ExitNext]_vars

\* ================================================================ claims

\* The entries of a position list whose quantity is not zero.
NonZero(ps) == {i \in 1..Len(ps) : ps[i].quantity # 0}

\* Whether the adapter's current snapshot holds an instrument with this
\* trading symbol.
InSnapshot(b, symbol) ==
    /\ instrumentsCache[b].loaded
    /\ \E j \in 1..Len(instrumentsCache[b].list) :
         instrumentsCache[b].list[j].symbol = symbol

\* t is num/den rounded half-up to an integer: t - 1/2 <= num/den < t + 1/2.
IsRoundedHalfUp(t, num, den) ==
    /\ 2 * den * t - den <= 2 * num
    /\ 2 * num < 2 * den * t + den

\* The promises of exitAllPositions are, in order, those of the non-zero
\* positions.
MarketItemsFollowPositions ==
    /\ Len(items) = Cardinality(NonZero(positions))
    /\ \A k \in 1..Len(items) : items[k].src \in NonZero(positions)
    /\ \A k, l \in 1..Len(items) : k < l => items[k].src < items[l].src

\* The write request is the MARKET exit of the position.
IsMarketExitOf(req, pos) ==
    /\ req.orderType = "MARKET"
    /\ req.transactionType = (IF pos.quantity > 0 THEN "SELL" ELSE "BUY")
    /\ req.quantity = (IF pos.quantity > 0 THEN pos.quantity ELSE 0 - pos.quantity)
    /\ req.product = pos.product
    /\ req.price = Absent
    /\ req.triggerPrice = Absent

\* C1 (as amended): exitAllPositions makes one placeOrder call per non-zero
\* position and none for a zero-quantity position; the Dhan and Zerodha
\* adapters send a write request for each of them, the Upstox adapter for
\* exactly those whose trading symbol its catalog snapshot resolves; every
\* request sent is the MARKET order on the opposite side for the absolute
\* quantity with the position's product. (All of it happens in the step
\* that takes the call: the callback of positions.map is synchronous.)
C1_ExitAllPositionsOrders ==
    [][(call.pc = "idle" /\ call'.op = "exitAllPositions") =>
         /\ Len(items') = Cardinality(NonZero(positions'))
         /\ \A k \in 1..Len(items') : items'[k].src \in NonZero(positions')
         /\ \A k, l \in 1..Len(items') : k < l => items'[k].src < items'[l].src
         /\ \A k \in 1..Len(items') :
              LET pos == positions'[items'[k].src]
              IN  /\ Sent(items'[k]) <=>
                       (call'.broker # "upstox" \/ InSnapshot("upstox", pos.symbol))
                  /\ Sent(items'[k]) => IsMarketExitOf(items'[k].req, pos)
      ]_vars

\* C1 witness: positions {0, +10} gave exactly one request, MARKET SELL 10,
\* and the call returned.
C1_Witness ==
    /\ call.op = "exitAllPositions"
    /\ call.pc = "returned"
    /\ Len(positions) = 2
    /\ positions[1].quantity = 0
    /\ positions[2].quantity = 10
    /\ Len(items) = 1
    /\ Sent(items[1])
    /\ items[1].req.orderType = "MARKET"
    /\ items[1].req.transactionType = "SELL"
    /\ items[1].req.quantity = 10

\* C1 as stated: in every adapter exitAllPositions submits one MARKET order
\* per non-zero position.
C1_Original ==
    (call.op = "exitAllPositions" /\ call.pc # "idle") =>
        /\ MarketItemsFollowPositions
        /\ \A k \in 1..Len(items) :
             /\ Sent(items[k])
             /\ IsMarketExitOf(items[k].req, positions[items[k].src])

\* The stop-loss percentage in force, in tenths of a percent: the caller's,
\* or 1 percent.
SlInForce == IF call.slPercentage \in {Absent, 0} THEN 10 ELSE call.slPercentage

\* The price offset in force, in tenths of a percent: the caller's, or 0.
OffsetInForce == IF call.priceOffset = Absent THEN 0 ELSE call.priceOffset

\* The name under which each broker takes a stop-loss-market order.
NativeSLM(b) == IF b = "dhan" THEN "SLM" ELSE "SL-M"

\* C2: every write request exitAllPositionsAddStopLoss sends is a
\* stop-loss-market order carrying the trigger price LTP x (1 - sl/100) for a
\* SELL exit and LTP x (1 + sl/100) for a BUY exit, rounded to 2 decimals
\* (stated here for quotes with a positive LTP).
C2_StopLossOrders ==
    call.op = "exitAllPositionsAddStopLoss" =>
        \A i \in 1..Len(items) :
            (Sent(items[i]) /\ items[i].ltp > 0) =>
                LET sell == positions[items[i].src].quantity > 0
                    factor == IF sell THEN 1000 - SlInForce ELSE 1000 + SlInForce
                IN  /\ items[i].req.orderType = NativeSLM(call.broker)
                    /\ items[i].req.triggerPrice # Absent
                    /\ IsRoundedHalfUp(items[i].req.triggerPrice,
                                       items[i].ltp * factor, 1000)

\* The limit price the adapter computes: DhanClient adds the offset for a
\* SELL exit and subtracts it for a BUY exit, UpstoxClient and ZerodhaClient
\* do the opposite.
LimitFactor(b, sell) ==
    IF (b = "dhan") = sell THEN 1000 + OffsetInForce ELSE 1000 - OffsetInForce

\* C3 (as amended): exitAllPositionsLimit prices a SELL exit at
\* LTP x (1 + priceOffset/100) in the Dhan adapter and at
\* LTP x (1 - priceOffset/100) in the Upstox and Zerodha adapters (a BUY exit
\* with the opposite sign), rounded to 2 decimals; the request sent carries
\* that price unless it is 0.
C3_LimitPriceByAdapter ==
    call.op = "exitAllPositionsLimit" =>
        \A i \in 1..Len(items) :
            items[i].ltp # Absent =>
                LET sell == positions[items[i].src].quantity > 0
                    price == items[i].params.price
                IN  /\ IsRoundedHalfUp(price,
                            items[i].ltp * LimitFactor(call.broker, sell), 1000)
                    /\ Sent(items[i]) =>
                         /\ items[i].req.orderType = "LIMIT"
                         /\ items[i].req.price = (IF price = 0 THEN Absent ELSE price)

\* C3 witness: the Dhan adapter sent a SELL exit at 100.50 for LTP 100.00 and
\* priceOffset 0.5.
C3_Witness ==
    /\ call.op = "exitAllPositionsLimit"
    /\ call.broker = "dhan"
    /\ call.priceOffset = 5
    /\ \E i \in 1..Len(items) :
         /\ Sent(items[i])
         /\ items[i].ltp = 10000
         /\ items[i].req.transactionType = "SELL"
         /\ items[i].req.price = 10050

\* C3 as stated: in every adapter a SELL exit is priced at
\* LTP x (1 + priceOffset/100) and a BUY exit at LTP x (1 - priceOffset/100).
C3_Original ==
    call.op = "exitAllPositionsLimit" =>
        \A i \in 1..Len(items) :
            items[i].ltp # Absent =>
                LET sell == positions[items[i].src].quantity > 0
                    factor == IF sell THEN 1000 + OffsetInForce
                              ELSE 1000 - OffsetInForce
                IN  IsRoundedHalfUp(items[i].params.price,
                                    items[i].ltp * factor, 1000)

\* C4: cancelAllOrders never fails as a whole because one cancel request
\* failed: it throws only when no cancel request was rejected.
C4_CancelFailureDoesNotAbort ==
    (call.op = "cancelAllOrders" /\ call.pc = "thrown") => Rejected(items) = {}

\* An order is open when its status, lower-cased, is one of the adapter's
\* open statuses; of the statuses the broker answers here, "OPEN" is.
OpenOrders == {i \in 1..Len(orders) : orders[i].status = "OPEN"}

\* C5: cancelAllOrders issues exactly one cancel request for each listed
\* order whose status is open (compared case-insensitively), in list order,
\* and none for any other order; the aggregate it returns holds exactly one
\* cancellation result per open order.
C5_CancelsExactlyOpenOrders ==
    (call.op = "cancelAllOrders" /\ call.pc # "idle") =>
        /\ Len(items) = Cardinality(OpenOrders)
        /\ \A k \in 1..Len(items) :
             /\ items[k].src \in OpenOrders
             /\ Sent(items[k])
             /\ items[k].orderId = orders[items[k].src].orderId
        /\ \A k, l \in 1..Len(items) : k < l => items[k].src < items[l].src
        /\ call.pc = "returned" =>
             /\ result.count = Cardinality(OpenOrders)
             /\ Len(result.details) = Cardinality(OpenOrders)

\* C5 witness: on 3 open and 2 filled orders the call returned an aggregate
\* of exactly 3 cancellation results.
C5_Witness ==
    /\ call.op = "cancelAllOrders"
    /\ call.pc = "returned"
    /\ Len(orders) = 5
    /\ Cardinality(OpenOrders) = 3
    /\ Cardinality({i \in 1..Len(orders) : orders[i].status = "COMPLETE"}) = 2
    /\ result.count = 3
    /\ \A k \in 1..Len(items) : items[k].pc = "fulfilled"

\* C6: an exit-all call does not fail as a whole because the sub-operation
\* of one position (its quote request or its write request) failed at the
\* broker: while such a promise is rejected the call has not thrown.
C6_ExitFailureDoesNotAbort ==
    (/\ call.op \in ExitOps
     /\ \E i \in 1..Len(items) :
          items[i].pc = "rejected" /\ items[i].error = "BrokerError")
        => call.pc # "thrown"

\* C7: the aggregate an exit-all variant returns counts the orders submitted
\* and its details hold one entry per submitted order, none of them null.
C7_AggregateCountsOrders ==
    (call.op \in ExitOps /\ call.pc = "returned") =>
        /\ result.count = Cardinality({i \in 1..Len(items) : Sent(items[i])})
        /\ Len(result.details) = result.count
        /\ \A k \in 1..Len(result.details) : ~result.details[k].null

\* The first instrument of the adapter's snapshot with this trading symbol.
Resolved(b, symbol) ==
    LET list == instrumentsCache[b].list
        j == CHOOSE j \in 1..Len(list) :
               /\ list[j].symbol = symbol
               /\ \A k \in 1..(j - 1) : list[k].symbol # symbol
    IN  list[j]

\* What a placeOrder call that resolves params.symbolName does: it fails with
\* "Instruments cache not loaded" or "Instrument not found" and sends
\* nothing, or it sends the order for the instrument found.
ResolvesThroughCatalog(b, params, item, instrumentOf(_)) ==
    IF ~instrumentsCache[b].loaded
    THEN ~Sent(item) /\ item.error = "NotLoaded"
    ELSE IF ~InSnapshot(b, params.symbolName)
    THEN ~Sent(item) /\ item.error = "InstrumentNotFound"
    ELSE Sent(item) /\ item.req.instrument = instrumentOf(Resolved(b, params.symbolName))

\* A step that takes a direct placeOrder call for a registered broker.
TakesPlaceOrder ==
    call.pc = "idle" /\ call'.op = "placeOrder" /\ call'.broker \in brokerClients

\* C8 (as amended): the Dhan adapter consults the catalog exactly when the
\* request carries no security id and otherwise sends the order under that
\* id, catalog loaded or not; the Upstox adapter always resolves the symbol
\* through the catalog; the Zerodha adapter resolves it exactly when the
\* exchange or the symbol is missing and otherwise sends the order under the
\* caller's symbol. Whenever the symbol is to be resolved and the catalog is
\* not loaded or holds no such symbol, the call fails (cache not loaded /
\* instrument not found) and no write request is sent.
C8_CatalogUseByAdapter ==
    [][TakesPlaceOrder =>
         LET b == call'.broker
             item == items'[1]
             params == item.params
         IN  /\ call'.pc = (IF Sent(item) THEN "awaiting" ELSE "thrown")
             /\ CASE b = "dhan" ->
                       IF params.securityId # ""
                       THEN Sent(item) /\ item.req.instrument = params.securityId
                       ELSE ResolvesThroughCatalog(b, params, item, LAMBDA x : x.id)
                  [] b = "upstox" ->
                       ResolvesThroughCatalog(b, params, item, LAMBDA x : x.token)
                  [] b = "zerodha" ->
                       IF params.exchange # "" /\ params.symbolName # ""
                       THEN Sent(item) /\ item.req.instrument = params.symbolName
                       ELSE ResolvesThroughCatalog(b, params, item, LAMBDA x : x.symbol)
      ]_vars

\* C8 witness: the Dhan adapter, its catalog not loaded, sent an order placed
\* with an explicit security id.
C8_Witness ==
    /\ call.op = "placeOrder"
    /\ call.broker = "dhan"
    /\ ~instrumentsCache["dhan"].loaded
    /\ items[1].params.securityId = "S1"
    /\ Sent(items[1])
    /\ items[1].req.instrument = "S1"

\* C8 as stated: in every adapter an order with an explicit security id is
\* sent under that id without a lookup, and one without is resolved through
\* the catalog, failing without a write request when resolution fails.
C8_Original ==
    [][TakesPlaceOrder =>
         LET b == call'.broker
             item == items'[1]
             params == item.params
         IN  IF params.securityId # ""
             THEN Sent(item)
             ELSE Sent(item) <=> InSnapshot(b, params.symbolName)
      ]_vars

\* C9: the request placeOrder sends carries a price exactly when the caller's
\* order type is LIMIT or SL and a (non-zero) price was supplied, and a
\* trigger price exactly when the order type is SL or SL-M and a (non-zero)
\* trigger price was supplied.
C9_PriceFieldsIff ==
    call.op = "placeOrder" =>
        \A i \in 1..Len(items) :
            Sent(items[i]) =>
                LET params == items[i].params
                    req == items[i].req
                IN  /\ req.price # Absent <=>
                         (params.orderType \in {"LIMIT", "SL"}
                          /\ params.price \notin {Absent, 0})
                    /\ req.triggerPrice # Absent <=>
                         (params.orderType \in {"SL", "SL-M"}
                          /\ params.triggerPrice \notin {Absent, 0})

\* C10: no write request that reaches a broker has an order type with a
\* limit component (LIMIT, SL) and no price, or one with a stop component
\* (SL, SL-M; SLM in Dhan's vocabulary) and no trigger price.
C10_OrderRequestInvariant ==
    \A i \in 1..Len(items) :
        items[i].req # NoRequest =>
            /\ items[i].req.orderType \in {"LIMIT", "SL"} =>
                 items[i].req.price # Absent
            /\ items[i].req.orderType \in {"SL", "SL-M", "SLM"} =>
                 items[i].req.triggerPrice # Absent

\* The documented domain of the translation, and the default of each adapter
\* for a product it does not recognise (the INTRADAY equivalent).
DocumentedProducts == {"INTRADAY", "DELIVERY", "MARGIN", "NORMAL"}
DocumentedOrderTypes == {"MARKET", "LIMIT", "SL", "SL-M"}
DefaultProduct(b) == IF b = "zerodha" THEN "MIS" ELSE "INTRADAY"

\* C11: in every adapter an order whose product or order type is outside
\* the documented domain reaches the broker with the default instead (the
\* INTRADAY-equivalent product, the MARKET order type), never unchanged.
C11_UnrecognizedMapsToDefault ==
    call.op = "placeOrder" =>
        \A i \in 1..Len(items) :
            Sent(items[i]) =>
                /\ items[i].params.product \notin DocumentedProducts =>
                     items[i].req.product = DefaultProduct(call.broker)
                /\ items[i].params.orderType \notin DocumentedOrderTypes =>
                     items[i].req.orderType = "MARKET"


\* A file the claim calls recent: it exists and its age is below 24 hours.
BelowThreshold(file) == file.exists /\ file.age < CacheMaxAgeHours

\* A step in which the adapter of b, its session obtained, runs
\* _loadInstrumentsCache up to the catalog request or to its end.
RefreshStarts(b) ==
    /\ initPc[b] = "pending"
    /\ initPc'[b] = "downloading" \/ instrumentsCache'[b].loaded

\* C12: a non-forced refresh reuses the persisted file, without any catalog
\* request, exactly when the file exists and its age is below 24 hours, and
\* then the snapshot is the file's content; otherwise it requests the catalog,
\* and a catalog received is written to the file. The first conjunct is the
\* refresh a constructor runs synchronously, the second the refresh that
\* follows a session request.
C12_RefreshReusesFileIffBelow24h ==
    /\ \A b \in brokerClients :
         initPc[b] # "pending" /\ axiosInstance[b] =>
             /\ initPc[b] = "downloading" <=> ~BelowThreshold(cacheFile[b])
             /\ initPc[b] = "done" =>
                  instrumentsCache[b] = LoadedCache(cacheFile[b].list)
    /\ [][\A b \in Brokers :
            /\ RefreshStarts(b) =>
                 /\ initPc'[b] = "downloading" <=> ~BelowThreshold(cacheFile[b])
                 /\ initPc'[b] = "done" =>
                      /\ instrumentsCache'[b] = LoadedCache(cacheFile[b].list)
                      /\ cacheFile'[b] = cacheFile[b]
            /\ (initPc[b] = "downloading" /\ initPc'[b] = "done"
                  /\ instrumentsCache'[b] # instrumentsCache[b]
                  /\ cacheFile[b] = NoFile) =>
                 /\ cacheFile'[b].exists
                 /\ instrumentsCache'[b] = LoadedCache(cacheFile'[b].list)
         ]_vars


\* C13: updateInstrumentCache(brokerName) requests the catalog from the
\* broker for each of the three brokers, whatever the age of the file, and
\* when the catalog arrives the call reports success and the catalog of that
\* broker's adapter is loaded.
C13_UpdateAlwaysRefetches ==
    [][/\ (call.pc = "idle" /\ call'.op = "updateInstrumentCache") =>
            call'.pc = "awaiting"
       /\ (call.op = "updateInstrumentCache" /\ call.pc = "awaiting"
             /\ call'.pc = "returned" /\ cacheFile' # cacheFile) =>
            /\ result'.success
            /\ instrumentsCache'[call.broker].loaded
      ]_vars


\* C14: when the catalog request of a refresh fails and a persisted file
\* exists, whatever its age, the adapter's snapshot is the content of that
\* file; when no file exists the snapshot stays unloaded.
C14_FallbackToPersistedFile ==
    [][\A b \in Brokers :
          (initPc[b] = "downloading" /\ initPc'[b] = "done"
             /\ cacheFile'[b] = cacheFile[b]) =>
              instrumentsCache'[b] =
                  IF cacheFile[b].exists THEN LoadedCache(cacheFile[b].list)
                  ELSE NotLoadedCache
      ]_vars


\* The step that takes a call of `op` for a registered broker.
Takes(op) == call.pc = "idle" /\ call'.op = op /\ call'.broker \in brokerClients

\* C15: a lookup never returns a match from a catalog that is unloaded or
\* empty. getInstrumentDetails fails with NotLoaded on an unloaded catalog
\* and returns absence on a loaded catalog without instruments;
\* findInstrumentBySecurityId returns absence when the provider's snapshot
\* is unloaded or empty.
C15_NoMatchWithoutInstruments ==
    [][/\ (Takes("getInstrumentDetails")
             /\ instrumentsCache[call'.broker].list = << >>) =>
            IF instrumentsCache[call'.broker].loaded
            THEN call'.pc = "returned" /\ ~result'.found
            ELSE call'.pc = "thrown" /\ call'.error = "NotLoaded"
       /\ (Takes("findInstrumentBySecurityId")
             /\ instrumentCache[call'.broker].list = << >>) =>
            call'.pc = "returned" /\ ~result'.found
      ]_vars

\* A lookup has returned absence from a loaded catalog without instruments.
C15_Witness ==
    /\ call.op = "getInstrumentDetails"
    /\ call.pc = "returned"
    /\ call.broker \in brokerClients
    /\ instrumentsCache[call.broker] = LoadedCache(<< >>)
    /\ ~result.found

\* C15 as stated: every lookup on an unloaded or empty catalog fails with
\* NotLoaded.
C15_Original ==
    [][((Takes("getInstrumentDetails")
             /\ instrumentsCache[call'.broker].list = << >>)
        \/ (Takes("findInstrumentBySecurityId")
             /\ instrumentCache[call'.broker].list = << >>)) =>
            call'.pc = "thrown" /\ call'.error = "NotLoaded"
      ]_vars


\* The security id an adapter's broker gives an instrument: Zerodha's numeric
\* instrument_token, the securityId and instrument_key strings of the others.
NativeId(b, instrument) ==
    IF b = "zerodha" THEN NumKey(instrument.token) ELSE StrKey(instrument.id)

\* The keys C16 expects to find an instrument.
KeysOf(b, instrument) ==
    {StrKey(instrument.symbol), StrKey(toUpperCase(instrument.symbol)),
     NativeId(b, instrument)}

\* C16: on a loaded catalog, getInstrumentDetails queried by an instrument's
\* symbol, by the upper-cased symbol or by its native security id returns
\* the first catalog entry with that symbol or id, in every adapter.
C16_LookupBySymbolCaseVariantAndId ==
    [][(Takes("getInstrumentDetails") /\ instrumentsCache[call'.broker].loaded) =>
          /\ call'.pc = "returned"
          /\ LET b == call'.broker
                 list == instrumentsCache[b].list
                 named == {i \in 1..Len(list) : result'.key \in KeysOf(b, list[i])}
             IN  named # {} =>
                   /\ result'.found
                   /\ result'.instrument = list[CHOOSE i \in named : \A j \in named : i <= j]
      ]_vars


\* A key that names no instrument of the list: it is neither a string nor a
\* number, or its text is no instrument's symbol (in any case), id or token.
NamesNothing(list, key) ==
    \/ key.type \notin {"string", "number"}
    \/ \A i \in 1..Len(list) :
         /\ key.val \notin {list[i].symbol, list[i].id, list[i].token}
         /\ toUpperCase(key.val) # toUpperCase(list[i].symbol)

\* C17: on a loaded catalog, getInstrumentDetails with a key that names no
\* instrument returns absence, raises nothing, and leaves the catalog, the
\* file and the adapter as they were.
C17_NoMatchReturnsAbsence ==
    [][\A key \in LookupKeys :
         (/\ Takes("getInstrumentDetails")
          /\ instrumentsCache[call'.broker].loaded
          /\ NamesNothing(instrumentsCache[call'.broker].list, key)
          /\ (call'.pc = "returned" => result'.key = key)) =>
             /\ call'.pc = "returned"
             /\ ~result'.found
             /\ result'.instrument = NoInstrument
             /\ UNCHANGED adapterVars
      ]_vars

\* A lookup by a key that is neither string nor number has returned absence
\* from a catalog with instruments.
C17_Witness ==
    /\ call.op = "getInstrumentDetails"
    /\ call.pc = "returned"
    /\ call.broker \in brokerClients
    /\ instrumentsCache[call.broker] = LoadedCache(Catalog)
    /\ result.key.type = "object"
    /\ ~result.found


\* The adapter registered under a name: whether there is one, and its state.
Entry(registry, pcs, transports, caches, name) ==
    [registered |-> name \in registry, pc |-> pcs[name],
     axios |-> transports[name], cache |-> caches[name]]

\* The construction the claim calls failed: a DhanClient or ZerodhaClient
\* built from undefined credentials.
FailsToConstruct(name, credentials) ==
    credentials = "missing" /\ name \in {"dhan", "zerodha"}

\* C18: registerBroker(name, credentials) returns without throwing and
\* changes no other name's entry. When the construction succeeds, name is
\* registered with a new adapter, which has no catalog or the catalog of a
\* reused file; when it fails, the registry is as it was before the call:
\* name stays unregistered if it was, and keeps its earlier adapter if it
\* had one.
C18_RegisterBroker ==
    [][(call.pc = "idle" /\ call'.op = "registerBroker") =>
         LET name == call'.broker
         IN  /\ call'.pc = "returned"
             /\ \A other \in Brokers \ {name} :
                  Entry(brokerClients', initPc', axiosInstance', instrumentsCache', other)
                    = Entry(brokerClients, initPc, axiosInstance, instrumentsCache, other)
             /\ IF FailsToConstruct(name, call'.credentials)
                THEN Entry(brokerClients', initPc', axiosInstance', instrumentsCache', name)
                       = Entry(brokerClients, initPc, axiosInstance, instrumentsCache, name)
                ELSE /\ name \in brokerClients'
                     /\ initPc'[name] # "none"
                     /\ instrumentsCache'[name] \in
                          {NotLoadedCache, LoadedCache(cacheFile[name].list)}
                     /\ instrumentsCache'[name].loaded => ~ShouldDownload(cacheFile[name])
      ]_vars

\* A registration has failed for a name that was registered before, and the
\* name is still registered.
C18_Witness ==
    /\ call.op = "registerBroker"
    /\ call.pc = "returned"
    /\ FailsToConstruct(call.broker, call.credentials)
    /\ call.broker \in brokerClients

\* C18 as stated: after a failed construction the name is unregistered, also
\* when it had an entry before.
C18_Original ==
    [][(call.pc = "idle" /\ call'.op = "registerBroker"
          /\ FailsToConstruct(call'.broker, call'.credentials)) =>
             /\ call'.pc = "returned"
             /\ call'.broker \notin brokerClients'
      ]_vars


\* The facade operations that resolve the name with getBrokerClient.
DelegatingOps ==
    {"placeOrder", "cancelAllOrders", "getInstrumentDetails"} \cup ExitOps \cup RequestOps

\* The step that takes a call of `op` for a name without registry entry.
TakesUnregistered(op) ==
    call.pc = "idle" /\ call'.op = op /\ call'.broker \notin brokerClients

\* C19: for a name without registry entry, each operation that resolves the
\* name fails with broker-not-registered before any request, file write or
\* state change. The two operations that do not resolve the name never fail
\* that way: findInstrumentBySecurityId returns what the provider's own
\* snapshot holds, and updateInstrumentCache returns false for a name other
\* than "upstox" and for "upstox" requests the catalog, whose arrival is
\* written to the file and to the provider's snapshot.
C19_UnregisteredName ==
    [][/\ \A op \in DelegatingOps :
            TakesUnregistered(op) =>
              /\ call'.pc = "thrown"
              /\ call'.error = "BrokerNotRegistered"
              /\ items' = << >>
              /\ UNCHANGED adapterVars
       /\ TakesUnregistered("findInstrumentBySecurityId") =>
              /\ call'.pc = "returned"
              /\ result'.found => instrumentCache[call'.broker].loaded
              /\ items' = << >>
              /\ UNCHANGED adapterVars
       /\ TakesUnregistered("updateInstrumentCache") =>
              /\ call'.pc = IF call'.broker = "upstox" THEN "awaiting" ELSE "returned"
              /\ call'.pc = "returned" => ~result'.success
              /\ items' = << >>
              /\ UNCHANGED adapterVars
       /\ (call.op = "updateInstrumentCache" /\ call.pc = "awaiting"
             /\ call'.pc = "returned" /\ call.broker \notin brokerClients) =>
              /\ UNCHANGED <<brokerClients, initPc, axiosInstance, instrumentsCache>>
              /\ result'.success =>
                   /\ cacheFile'["upstox"].exists
                   /\ instrumentCache'["upstox"] = LoadedCache(cacheFile'["upstox"].list)
      ]_vars

\* A call for an unregistered name has thrown broker-not-registered, and the
\* refresh of the unregistered "upstox" has written its file.
C19_Witness ==
    /\ call.op \in DelegatingOps
    /\ call.broker \notin brokerClients
    /\ call.pc = "thrown"
    /\ call.error = "BrokerNotRegistered"
    /\ instrumentCache["upstox"].loaded
    /\ "upstox" \notin brokerClients

\* C19 as stated: every operation that takes a broker name fails with
\* broker-not-registered for a name without entry, without request, file
\* write or state change.
C19_Original ==
    [][/\ \A op \in DelegatingOps \cup {"updateInstrumentCache", "findInstrumentBySecurityId"} :
            TakesUnregistered(op) =>
              /\ call'.pc = "thrown"
              /\ call'.error = "BrokerNotRegistered"
              /\ items' = << >>
              /\ UNCHANGED adapterVars
       /\ (call.op = "updateInstrumentCache" /\ call.broker \notin brokerClients) =>
              UNCHANGED adapterVars
      ]_vars


\* The registry and the adapters (catalog snapshot, transport, progress).
adapterState == <<brokerClients, initPc, axiosInstance, instrumentsCache>>

\* The call taken for the registered broker A has the outcome of A's adapter
\* for the operation: its lookup, its order request, its fan-out over the
\* list it received, or its TypeError when it has no transport.
OutcomeOfAdapter(A) ==
    CASE call'.op = "getInstrumentDetails" ->
           IF ~instrumentsCache[A].loaded
           THEN call'.pc = "thrown" /\ call'.error = "NotLoaded"
           ELSE /\ call'.pc = "returned"
                /\ LET r == getInstrumentDetails(A, instrumentsCache[A], result'.key)
                   IN  /\ result'.found = r.found
                       /\ r.found => result'.instrument = instrumentsCache[A].list[r.index]
      [] call'.op = "placeOrder" ->
           /\ Len(items') = 1
           /\ items'[1] = PlacedItem(A, 1, Absent, items'[1].params)
      [] call'.op = "exitAllPositions" ->
           call'.pc = "thrown" \/ items' = MarketItems(A, positions')
      [] call'.op \in ExitOps \ {"exitAllPositions"} ->
           call'.pc = "thrown" \/ items' = QuotedItems(A, positions')
      [] call'.op = "cancelAllOrders" ->
           call'.pc = "thrown" \/ items' = CancelItems(A, orders')
      [] call'.op \in RequestOps ->
           IF axiosInstance[A]
           THEN Len(items') = 1 /\ items'[1].pc = "posted"
           ELSE call'.pc = "thrown" /\ call'.error = "TypeError"

Degraded(b) == initPc[b] = "done" /\ ~instrumentsCache[b].loaded
AuthenticationFailed(b) == b = "upstox" /\ initPc[b] = "done" /\ ~axiosInstance[b]

\* The operations that send a request with the adapter's session.
BrokerCallOps == {"cancelAllOrders"} \cup ExitOps \cup RequestOps

\* C21: a degraded adapter stays degraded unless it is registered anew; its
\* lookups fail with NotLoaded, and every broker call of an Upstox adapter
\* whose authentication failed fails with Unauthenticated (a symbol-based
\* placeOrder with NotLoaded or Unauthenticated) and sends nothing.
C21_DegradedAdapterErrors ==
    [][/\ \A b \in Brokers :
            (Degraded(b) /\ call'.op # "registerBroker") =>
                Degraded(b)' /\ axiosInstance'[b] = axiosInstance[b]
       /\ (Takes("getInstrumentDetails") /\ Degraded(call'.broker)) =>
            call'.pc = "thrown" /\ call'.error = "NotLoaded"
       /\ (Takes("placeOrder") /\ AuthenticationFailed(call'.broker)) =>
            /\ items'[1].pc = "rejected"
            /\ items'[1].error \in {"NotLoaded", "Unauthenticated"}
       /\ \A op \in BrokerCallOps :
            (Takes(op) /\ AuthenticationFailed(call'.broker)) =>
              /\ call'.pc = "thrown"
              /\ call'.error = "Unauthenticated"
              /\ items' = << >>
      ]_vars


\* C22: once updateInstrumentCache(b) has returned true for the registered
\* broker b, a lookup or a symbol-based order of b's adapter finds the
\* catalog loaded: it never fails with NotLoaded.
C22_RefreshFeedsAdapterLookups ==
    [][/\ (Takes("getInstrumentDetails") /\ instrumentCache[call'.broker].loaded) =>
            ~(call'.pc = "thrown" /\ call'.error = "NotLoaded")
       /\ (Takes("placeOrder") /\ instrumentCache[call'.broker].loaded) =>
            items'[1].error # "NotLoaded"
      ]_vars


\* C23: whenever the request of a list method succeeds, the method returns
\* an array, and the empty array when the answer carries no data.
C23_ListMethodsReturnLists ==
    [][(call.op \in ListMethods /\ call.pc = "awaiting"
          /\ call'.pc # "awaiting" /\ call'.error # "BrokerError") =>
           /\ call'.pc = "returned"
           /\ result'.value.type = "array"
           /\ result'.answer.type \in {"null", "undefined"} => result'.value.list = << >>
           /\ (result'.answer.type = "object" /\ result'.answer.field # "array") =>
                result'.value.list = << >>
      ]_vars


\* C24: every limit price and trigger price of an exit-all variant is the
\* exact price rounded half up to the cent: floor(100 p + 1/2) / 100.
C24_RoundHalfUpToCent ==
    \A i \in 1..Len(items) :
        items[i].ltp # Absent =>
            LET sell == positions[items[i].src].quantity > 0
            IN  /\ call.op = "exitAllPositionsLimit" =>
                     IsRoundedHalfUp(items[i].params.price,
                                     items[i].ltp * LimitFactor(call.broker, sell), 1000)
                /\ call.op = "exitAllPositionsAddStopLoss" =>
                     IsRoundedHalfUp(items[i].params.triggerPrice,
                                     items[i].ltp * (IF sell THEN 1000 - SlInForce
                                                     ELSE 1000 + SlInForce), 1000)


\* The bulk operations: one list request, then a fan-out of promises.
BulkOps == {"cancelAllOrders"} \cup ExitOps

\* C25: when a bulk operation has returned or failed, none of its cancel
\* requests, quote requests or order requests is still in flight, and no
\* request is sent for it after it has failed.
C25_CompletesAfterSubOperations ==
    [][/\ (call'.op \in BulkOps /\ call'.pc \in {"returned", "thrown"}) =>
            \A i \in 1..Len(items') : ~InFlight(items'[i])
       /\ (call.op \in BulkOps /\ call.pc = "thrown" /\ call' = call) =>
            \A i \in 1..Len(items) : Sent(items'[i]) => Sent(items[i])
      ]_vars


\* C26: when the adapter's refresh and the provider's refresh of the same
\* catalog overlap, each one that receives its download writes the whole
\* download to the file, which then holds exactly the content of the refresh
\* that completed last, and takes that download as its own snapshot without
\* touching the snapshot of the other.
C26_ConcurrentRefreshes ==
    [][/\ \A b \in Brokers :
            (initPc[b] = "downloading" /\ initPc'[b] = "done"
               /\ cacheFile'[b] # cacheFile[b]) =>
              \E d \in Downloads :
                  /\ cacheFile'[b] = File(0, d)
                  /\ instrumentsCache'[b] = LoadedCache(d)
                  /\ instrumentCache' = instrumentCache
       /\ (call.op = "updateInstrumentCache" /\ call.pc = "awaiting"
             /\ call'.pc = "returned" /\ result'.success) =>
              \E d \in Downloads :
                  /\ cacheFile'[call.broker] = File(0, d)
                  /\ instrumentCache'[call.broker] = LoadedCache(d)
                  /\ instrumentsCache' = instrumentsCache
      ]_vars

\* The adapter's refresh has completed with one download after the
\* provider's refresh, started while the adapter was still initializing,
\* completed with another: the file holds the adapter's download, each
\* snapshot its own.
C26_Witness ==
    /\ call.op = "updateInstrumentCache"
    /\ call.pc = "returned"
    /\ result.success
    /\ initPc["upstox"] = "done"
    /\ instrumentCache["upstox"] = LoadedCache(<< >>)
    /\ instrumentsCache["upstox"] = LoadedCache(Catalog)
    /\ cacheFile["upstox"] = File(0, Catalog)


\* What an order type means, whatever the broker calls it.
Meaning(orderType) == IF orderType = "SLM" THEN "SL-M" ELSE orderType

Opposite(transactionType) == IF transactionType = "SELL" THEN "BUY" ELSE "SELL"

\* The exit parameters adapter b2 computes for position pos at quote ltp in
\* the variant of the call being served.
ExitBy(b2, pos, ltp) ==
    LET tt == ExitTransactionType(pos.quantity)
    IN  ExitParams(b2, call.op, pos,
                   IF call.op = "exitAllPositionsLimit"
                   THEN LimitPrice(b2, tt, ltp, call.priceOffset) ELSE Absent,
                   IF call.op = "exitAllPositionsAddStopLoss"
                   THEN TriggerPrice(b2, tt, ltp, call.slPercentage) ELSE Absent)

\* The exits computed by the call being served: promise, position, quote.
ComputedExits ==
    {i \in 1..Len(items) :
        call.op \in ExitOps /\ call.broker \in brokerClients
          /\ items[i].params # NoParams}

LoadPending(b) == b \in brokerClients /\ initPc[b] \in {"pending", "downloading"}

\* The snapshots an adapter may hold: none, or a whole catalog (a download or
\* the content of a file).
CompleteSnapshots == {NotLoadedCache} \cup {LoadedCache(d) : d \in Downloads}

\* What C28 says of registerBroker, of a lookup and of the snapshot.
PendingLoadRule ==
    /\ \A b \in Brokers : instrumentsCache'[b] \in CompleteSnapshots
    /\ (call.pc = "idle" /\ call'.op = "registerBroker") =>
         /\ call'.pc = "returned"
         /\ ~instrumentsCache'[call'.broker].loaded =>
              \/ initPc'[call'.broker] \in {"pending", "downloading"}
              \/ FailsToConstruct(call'.broker, call'.credentials)
              \/ call'.credentials = "missing"
         /\ (call'.broker \in brokerClients'
               /\ initPc'[call'.broker] \in {"pending", "downloading"}) =>
              ~instrumentsCache'[call'.broker].loaded
    /\ (Takes("getInstrumentDetails") /\ LoadPending(call'.broker)) =>
         call'.pc = "thrown" /\ call'.error = "NotLoaded"
    /\ \A b \in Brokers :
         (instrumentsCache[b].loaded
            /\ ~(call'.op = "registerBroker" /\ call.pc = "idle" /\ call'.broker = b)) =>
           instrumentsCache'[b].loaded

\* An order that names its instrument by symbol only, without securityId.
SymbolBased(b, params) == params.symbolName # "" /\ params.securityId = ""

\* The step takes a placeOrder call on an adapter whose load is pending, and
\* the order is rejected with NotLoaded before any request.
PendingOrder == Takes("placeOrder") /\ LoadPending(call'.broker)
RejectedNotLoaded ==
    /\ items'[1].pc = "rejected"
    /\ items'[1].error = "NotLoaded"
    /\ ~Sent(items'[1])

\* C28: registerBroker returns without waiting for any request of the new
\* adapter's initialization, which is then pending with no catalog; the
\* snapshot of an adapter is always none or one whole catalog; while the
\* load is pending a lookup fails with NotLoaded, and an order whose
\* adapter resolves the symbol through the catalog (Dhan without securityId,
\* Upstox always, Zerodha only without exchange or symbol) is rejected with
\* NotLoaded without any request; and a loaded snapshot of an adapter is
\* never unloaded again (only a new registration puts a new adapter, with
\* its own snapshot, under the name).
C28_LoadPendingThenReady ==
    [][/\ PendingLoadRule
       /\ (PendingOrder /\ ConsultsCatalog(call'.broker, items'[1].params)) =>
            RejectedNotLoaded
      ]_vars

\* C28 as stated: every order that names its instrument by symbol fails with
\* NotLoaded while the load is pending.
C28_Original ==
    [][/\ PendingLoadRule
       /\ (PendingOrder /\ SymbolBased(call'.broker, items'[1].params)) =>
            RejectedNotLoaded
      ]_vars

\* A Dhan order without securityId, placed while the catalog was being
\* downloaded, has been rejected with NotLoaded and nothing was sent.
C28_Witness ==
    /\ call.op = "placeOrder"
    /\ call.broker = "dhan"
    /\ call.broker \in brokerClients
    /\ initPc[call.broker] = "downloading"
    /\ ~instrumentsCache[call.broker].loaded
    /\ Len(items) = 1
    /\ items[1].params.securityId = ""
    /\ items[1].pc = "rejected"
    /\ items[1].error = "NotLoaded"
    /\ ~Sent(items[1])


\* C29: over all exit-all calls on one adapter, the exit quantity the broker
\* has accepted for a position is at most the absolute quantity of the
\* position as open at the broker.
C29_ExitsBoundedByOpenQuantity ==
    brokerBook.submitted <= Abs(brokerBook.quantity)


\* The adapters that translate products through a table.
TranslatingAdapters == {"dhan", "zerodha"}

\* C30: in Dhan and Zerodha an order with a documented product reaches the
\* broker with a native product that no other documented product is
\* translated to, that the translation leaves unchanged when applied again,
\* and that is the default only for INTRADAY.
C30_ProductsDistinctAndIdempotent ==
    (call.op = "placeOrder" /\ call.broker \in TranslatingAdapters) =>
        \A i \in 1..Len(items) :
            (Sent(items[i]) /\ items[i].params.product \in DocumentedProducts) =>
                /\ \A q \in DocumentedProducts \ {items[i].params.product} :
                     _mapProduct(call.broker, q) # items[i].req.product
                /\ _mapProduct(call.broker, items[i].req.product) = items[i].req.product
                /\ items[i].params.product # "INTRADAY" =>
                     items[i].req.product # DefaultProduct(call.broker)

====
